---------------------------- MODULE Spec2Model ----------------------------
(***************************************************************************)
(* Model of pricewatchrust (src/src/main.rs): a websocket loop hands every *)
(* text frame to handle_message, which builds an OrderBook out of two      *)
(* std::collections::BinaryHeap values, pushes every bid and ask entry of  *)
(* the frame into it, and prints two depth-weighted average prices and     *)
(* their difference.                                                       *)
(*                                                                         *)
(* A Decimal is modelled by an exact fraction in lowest terms.  A           *)
(* BinaryHeap is modelled by its backing vector, the sequence that         *)
(* BinaryHeap::iter walks from index 0 upward.  order_book keeps the value *)
(* the local had when handle_message returned until the next call creates  *)
(* a new one; msg_b, msg_a and prev_book are history variables.            *)
(***************************************************************************)
EXTENDS Integers, Sequences, FiniteSets, TLC

\* Bounds of the model.
MaxUpdates == 3     \* entries applied over one session
MaxDepth == 3       \* pricing is examined at depths 0, 1/2, ..., MaxDepth/2

\* The [price, quantity] string pairs that occur in frames: every pairing of
\* three prices with a zero and two positive quantities, and one entry for
\* each way an entry can be invalid (a price of zero, a negative quantity, a
\* price or a quantity that is no number).
Entries ==
    ({"1", "2", "3"} \X {"0", "0.5", "1"})
        \cup {<<"0", "1">>, <<"1", "-1">>, <<"x", "1">>, <<"1", "x">>}

VARIABLES
    pc,            \* where the process is: "recv" | "bids" | "asks" | "panicked" | "closed"
    order_book,    \* handle_message's local order_book: [bids, asks], each a heap vector
    msg_b,         \* history: the bid entries of the current frame applied so far
    msg_a,         \* history: the ask entries of the current frame applied so far
    prev_book,     \* history: order_book as the previous handle_message call priced it
    printed,       \* what the last finished call printed: [bid, ask, spread], any = FALSE before
    updates        \* number of entries applied over the session

vars == <<pc, order_book, msg_b, msg_a, prev_book, printed, updates>>

-----------------------------------------------------------------------------
\* rust_decimal::Decimal: an exact decimal number, kept as a fraction in
\* lowest terms with a positive denominator.
Abs(x) == IF x < 0 THEN -x ELSE x

RECURSIVE Gcd(_, _)
Gcd(a, b) == IF b = 0 THEN a ELSE Gcd(b, a % b)

Frac(n, d) ==
    LET g == Gcd(Abs(n), Abs(d))
        s == IF d < 0 THEN -1 ELSE 1
    IN [num |-> s * (n \div g), den |-> s * (d \div g)]

DecimalZero == Frac(0, 1)
DAdd(x, y) == Frac(x.num * y.den + y.num * x.den, x.den * y.den)
DSub(x, y) == Frac(x.num * y.den - y.num * x.den, x.den * y.den)
DMul(x, y) == Frac(x.num * y.num, x.den * y.den)
DDiv(x, y) == Frac(x.num * y.den, x.den * y.num)
DLt(x, y) == x.num * y.den < y.num * x.den
DGe(x, y) == ~DLt(x, y)
DIsZero(x) == x.num = 0

\* Decimal::from_str on the strings of Entries: Ok(value) or Err.
Ok(v) == [ok |-> TRUE, val |-> v]
Err == [ok |-> FALSE, val |-> DecimalZero]

DecimalFromStr(s) ==
    CASE s = "-1" -> Ok(Frac(-1, 1))
      [] s = "0" -> Ok(Frac(0, 1))
      [] s = "0.5" -> Ok(Frac(1, 2))
      [] s = "1" -> Ok(Frac(1, 1))
      [] s = "2" -> Ok(Frac(2, 1))
      [] s = "3" -> Ok(Frac(3, 1))
      [] OTHER -> Err

\* struct Order
Order(p, q) == [price |-> p, quantity |-> q]

\* Option<Decimal>
None == [some |-> FALSE, val |-> DecimalZero]
Some(v) == [some |-> TRUE, val |-> v]
UnwrapOr(opt, dflt) == IF opt.some THEN opt.val ELSE dflt

-----------------------------------------------------------------------------
\* impl Ord for Order: orders compare by price alone.
OrderCmp(a, b) ==
    IF DLt(a.price, b.price) THEN "Less"
    ELSE IF DLt(b.price, a.price) THEN "Greater"
    ELSE "Equal"

\* std::cmp::Reverse<Order>: the comparison with its arguments exchanged.
ReverseCmp(a, b) == OrderCmp(b, a)

\* The element order of a heap: bids is BinaryHeap<Order>, asks is
\* BinaryHeap<Reverse<Order>>.
HeapLe(order_type, a, b) ==
    IF order_type = "bid" THEN OrderCmp(a, b) # "Greater"
    ELSE ReverseCmp(a, b) # "Greater"

Swap(data, i, j) == [data EXCEPT ![i] = data[j], ![j] = data[i]]

\* A sift_up that leaves the pushed element where push appended it.
SiftUp_NoClimb(data, pos, order_type) == data

\* BinaryHeap::sift_up(0, pos): the pushed element climbs while it is
\* strictly greater than its parent.  Indices are 1-based here, so the parent
\* of pos is pos \div 2 (0-based: (pos - 1) / 2).
RECURSIVE SiftUp(_, _, _)
SiftUp(data, pos, order_type) ==
    IF pos > 1
    THEN LET parent == pos \div 2
         IN IF HeapLe(order_type, data[pos], data[parent])
            THEN data
            ELSE SiftUp(Swap(data, pos, parent), parent, order_type)
    ELSE data

\* BinaryHeap::push: append to the vector, then sift the new element up.
HeapPush(data, item, order_type) ==
    SiftUp(Append(data, item), Len(data) + 1, order_type)

\* OrderBook::new
NewOrderBook == [bids |-> <<>>, asks |-> <<>>]

\* An add_order that pushes the order onto both sides.
add_order_both_sides(book, order, order_type) ==
    [bids |-> HeapPush(book.bids, order, "bid"),
     asks |-> HeapPush(book.asks, order, "ask")]

\* OrderBook::add_order; handle_message passes only "bid" and "ask", so the
\* panic arm of the match is never taken.
add_order(book, order, order_type) ==
    IF order_type = "bid"
    THEN [book EXCEPT !.bids = HeapPush(@, order, "bid")]
    ELSE [book EXCEPT !.asks = HeapPush(@, order, "ask")]

-----------------------------------------------------------------------------
\* The loop of calculate_weighted_average_price_bids over bids.iter(), from
\* index i on.  taken records what each visited level contributed (the
\* quantity added to total_quantity in that iteration).
RECURSIVE SweepBids(_, _, _, _, _, _)
SweepBids(bids, depth, i, weighted_sum, total_quantity, taken) ==
    IF i > Len(bids)
    THEN [weighted_sum |-> weighted_sum, total_quantity |-> total_quantity,
          taken |-> taken]
    ELSE LET order == bids[i]
         IN IF DGe(DAdd(total_quantity, order.quantity), depth)
            THEN LET remaining_quantity == DSub(depth, total_quantity)
                 IN [weighted_sum |->
                         DAdd(weighted_sum, DMul(order.price, remaining_quantity)),
                     total_quantity |-> DAdd(total_quantity, remaining_quantity),
                     taken |-> Append(taken, remaining_quantity)]
            ELSE SweepBids(bids, depth, i + 1,
                         DAdd(weighted_sum, DMul(order.price, order.quantity)),
                         DAdd(total_quantity, order.quantity),
                         Append(taken, order.quantity))

\* The bid routine dividing by the depth asked for, not by the quantity taken.
calculate_weighted_average_price_bids_by_depth(bids, depth) ==
    LET r == SweepBids(bids, depth, 1, DecimalZero, DecimalZero, <<>>)
    IN IF DIsZero(r.total_quantity)
       THEN None
       ELSE Some(DDiv(r.weighted_sum, depth))

calculate_weighted_average_price_bids(bids, depth) ==
    LET r == SweepBids(bids, depth, 1, DecimalZero, DecimalZero, <<>>)
    IN IF DIsZero(r.total_quantity)
       THEN None
       ELSE Some(DDiv(r.weighted_sum, r.total_quantity))

\* The loop of calculate_weighted_average_price_asks over asks.iter().
RECURSIVE SweepAsks(_, _, _, _, _, _)
SweepAsks(asks, depth, i, weighted_sum, total_quantity, taken) ==
    IF i > Len(asks)
    THEN [weighted_sum |-> weighted_sum, total_quantity |-> total_quantity,
          taken |-> taken]
    ELSE LET order == asks[i]
         IN IF DGe(DAdd(total_quantity, order.quantity), depth)
            THEN LET remaining_quantity == DSub(depth, total_quantity)
                 IN [weighted_sum |->
                         DAdd(weighted_sum, DMul(order.price, remaining_quantity)),
                     total_quantity |-> DAdd(total_quantity, remaining_quantity),
                     taken |-> Append(taken, remaining_quantity)]
            ELSE SweepAsks(asks, depth, i + 1,
                         DAdd(weighted_sum, DMul(order.price, order.quantity)),
                         DAdd(total_quantity, order.quantity),
                         Append(taken, order.quantity))

calculate_weighted_average_price_asks(asks, depth) ==
    LET r == SweepAsks(asks, depth, 1, DecimalZero, DecimalZero, <<>>)
    IN IF DIsZero(r.total_quantity)
       THEN None
       ELSE Some(DDiv(r.weighted_sum, r.total_quantity))

\* let depth = Decimal::from_str("1").unwrap()
Depth == DecimalFromStr("1").val

-----------------------------------------------------------------------------
NoOutput == [bid |-> DecimalZero, ask |-> DecimalZero, spread |-> DecimalZero,
             any |-> FALSE]

Init ==
    /\ pc = "recv"
    /\ order_book = NewOrderBook
    /\ msg_b = <<>>
    /\ msg_a = <<>>
    /\ prev_book = NewOrderBook
    /\ printed = NoOutput
    /\ updates = 0

\* main: socket.next() yields a text frame that deserializes; handle_message
\* starts with a new OrderBook.
RecvText ==
    /\ pc = "recv"
    /\ pc' = "bids"
    /\ prev_book' = order_book
    /\ order_book' = NewOrderBook
    /\ msg_b' = <<>>
    /\ msg_a' = <<>>
    /\ UNCHANGED <<printed, updates>>

\* main: a text frame that is not a WebSocketMessage (serde_json::from_str
\* fails) or a transport error (message.unwrap()): the unwrap panics.
RecvMalformed ==
    /\ pc = "recv"
    /\ pc' = "panicked"
    /\ UNCHANGED <<order_book, msg_b, msg_a, prev_book, printed, updates>>

\* main: a binary frame is printed, any other kind of frame is ignored.
RecvOther ==
    /\ pc = "recv"
    /\ UNCHANGED vars

\* main: the stream ends (socket.next() is None) and main returns.
Close ==
    /\ pc = "recv"
    /\ pc' = "closed"
    /\ UNCHANGED <<order_book, msg_b, msg_a, prev_book, printed, updates>>

\* One iteration of `for bid in message.b` on the entry [ps, qs].
ApplyBid(ps, qs) ==
    /\ pc = "bids"
    /\ updates < MaxUpdates
    /\ LET price == DecimalFromStr(ps)
           quantity == DecimalFromStr(qs)
       IN IF price.ok /\ quantity.ok
          THEN /\ order_book' = add_order(order_book, Order(price.val, quantity.val), "bid")
               /\ msg_b' = Append(msg_b, Order(price.val, quantity.val))
               /\ updates' = updates + 1
               /\ pc' = "bids"
          ELSE /\ pc' = "panicked"
               /\ UNCHANGED <<order_book, msg_b, updates>>
    /\ UNCHANGED <<msg_a, prev_book, printed>>

\* One iteration of `for ask in message.a` on the entry [ps, qs]; the first
\* one also leaves the bid loop.
ApplyAsk(ps, qs) ==
    /\ pc \in {"bids", "asks"}
    /\ updates < MaxUpdates
    /\ LET price == DecimalFromStr(ps)
           quantity == DecimalFromStr(qs)
       IN IF price.ok /\ quantity.ok
          THEN /\ order_book' = add_order(order_book, Order(price.val, quantity.val), "ask")
               /\ msg_a' = Append(msg_a, Order(price.val, quantity.val))
               /\ updates' = updates + 1
               /\ pc' = "asks"
          ELSE /\ pc' = "panicked"
               /\ UNCHANGED <<order_book, msg_a, updates>>
    /\ UNCHANGED <<msg_b, prev_book, printed>>

\* The pricing step with the spread taken as bid minus ask.
Price_BidMinusAsk ==
    /\ pc \in {"bids", "asks"}
    /\ LET bid_avg_price ==
               UnwrapOr(calculate_weighted_average_price_bids(order_book.bids, Depth),
                        DecimalZero)
           ask_avg_price ==
               UnwrapOr(calculate_weighted_average_price_asks(order_book.asks, Depth),
                        DecimalZero)
           spread == DSub(bid_avg_price, ask_avg_price)
       IN printed' = [bid |-> bid_avg_price, ask |-> ask_avg_price,
                      spread |-> spread, any |-> TRUE]
    /\ pc' = "recv"
    /\ UNCHANGED <<order_book, msg_b, msg_a, prev_book, updates>>

\* The pricing step placed inside the loops: it prints and the frame's
\* entries go on being applied.
Price_InsideLoop ==
    /\ pc \in {"bids", "asks"}
    /\ LET bid_avg_price ==
               UnwrapOr(calculate_weighted_average_price_bids(order_book.bids, Depth),
                        DecimalZero)
           ask_avg_price ==
               UnwrapOr(calculate_weighted_average_price_asks(order_book.asks, Depth),
                        DecimalZero)
           spread == DSub(ask_avg_price, bid_avg_price)
       IN printed' = [bid |-> bid_avg_price, ask |-> ask_avg_price,
                      spread |-> spread, any |-> TRUE]
    /\ UNCHANGED <<pc, order_book, msg_b, msg_a, prev_book, updates>>

\* Both loops are over: price both sides at Depth, print, return to main.
Price ==
    /\ pc \in {"bids", "asks"}
    /\ LET bid_avg_price ==
               UnwrapOr(calculate_weighted_average_price_bids(order_book.bids, Depth),
                        DecimalZero)
           ask_avg_price ==
               UnwrapOr(calculate_weighted_average_price_asks(order_book.asks, Depth),
                        DecimalZero)
           spread == DSub(ask_avg_price, bid_avg_price)
       IN printed' = [bid |-> bid_avg_price, ask |-> ask_avg_price,
                      spread |-> spread, any |-> TRUE]
    /\ pc' = "recv"
    /\ UNCHANGED <<order_book, msg_b, msg_a, prev_book, updates>>

Next ==
    \/ RecvText
    \/ RecvMalformed
    \/ RecvOther
    \/ Close
    \/ \E e \in Entries : ApplyBid(e[1], e[2])
    \/ \E e \in Entries : ApplyAsk(e[1], e[2])
    \/ Price

Spec == Init /\ [][Next]_vars

\* The session cut down to its first text frame: every book handle_message
\* can build is built from one frame, since it starts from OrderBook::new().
NextFrame ==
    \/ RecvText /\ ~printed.any
    \/ RecvMalformed
    \/ RecvOther
    \/ Close
    \/ \E e \in Entries : ApplyBid(e[1], e[2])
    \/ \E e \in Entries : ApplyAsk(e[1], e[2])
    \/ Price

SpecFrame == Init /\ [][NextFrame]_vars

-----------------------------------------------------------------------------
\* Vocabulary of the properties below.
SideTypes == {"bid", "ask"}
Side(book, order_type) == IF order_type = "bid" THEN book.bids ELSE book.asks
Applied(order_type) == IF order_type = "bid" THEN msg_b ELSE msg_a
Last(seq) == seq[Len(seq)]

\* The positions of a side that hold a level at price p.
LevelsAt(levels, p) == {i \in DOMAIN levels : levels[i].price = p}

\* The levels of a side at prices other than p.
LevelsBut(levels, p) == {levels[i] : i \in DOMAIN levels \ LevelsAt(levels, p)}

\* The step applies one update, apply_update(order_type, e.price, e.quantity).
AppliesUpdate(order_type) ==
    IF order_type = "bid"
    THEN msg_b' # msg_b /\ msg_b' = Append(msg_b, Last(msg_b'))
    ELSE msg_a' # msg_a /\ msg_a' = Append(msg_a, Last(msg_a'))

\* A level that apply_update's input constraints admit and that rests in the
\* book: a positive price and a positive quantity.
Resting(level) == DLt(DecimalZero, level.price) /\ DLt(DecimalZero, level.quantity)

\* A frame has been handled to its end and its book priced.
Priced == pc = "recv" /\ printed.any

\* C1: after any sequence of updates, each side of the book holds at most
\* one price level per distinct price (stated of the resting levels, those
\* with a positive quantity).
C1_OneLevelPerPrice ==
    \A t \in SideTypes :
        \A i, j \in DOMAIN Side(order_book, t) :
            (/\ Resting(Side(order_book, t)[i])
             /\ Resting(Side(order_book, t)[j])
             /\ Side(order_book, t)[i].price = Side(order_book, t)[j].price)
            => i = j

\* C2: upsert replaces: after apply_update(side, p, q1) and then
\* apply_update(side, p, q2) with p > 0, q1 > 0 and q2 > 0, the side holds
\* exactly one level at p, and its quantity is q2.
C2_UpsertReplaces ==
    \A t \in SideTypes :
        LET m == Applied(t)
            n == Len(m)
        IN (/\ n >= 2
            /\ m[n - 1].price = m[n].price
            /\ Resting(m[n - 1])
            /\ Resting(m[n]))
           => /\ Cardinality(LevelsAt(Side(order_book, t), m[n].price)) = 1
              /\ \A i \in LevelsAt(Side(order_book, t), m[n].price) :
                     Side(order_book, t)[i].quantity = m[n].quantity

\* C3: delete on zero quantity: after apply_update(side, p, 0) the side
\* holds no level at p, and every other level of that side is as before.
C3_DeleteOnZero ==
    [][\A t \in SideTypes :
           (AppliesUpdate(t) /\ DIsZero(Last(Applied(t)').quantity))
           => LET p == Last(Applied(t)').price
              IN /\ LevelsAt(Side(order_book', t), p) = {}
                 /\ LevelsBut(Side(order_book', t), p) = LevelsBut(Side(order_book, t), p)
      ]_vars

\* C4: idempotent delete: apply_update(side, p, 0) on a side with no level
\* at p leaves the whole book as it was.
C4_IdempotentDelete ==
    [][\A t \in SideTypes :
           (/\ AppliesUpdate(t)
            /\ DIsZero(Last(Applied(t)').quantity)
            /\ LevelsAt(Side(order_book, t), Last(Applied(t)').price) = {})
           => order_book' = order_book
      ]_vars

\* C5: the book persists across frames: a resting level of the book priced
\* for the previous frame that the current frame did not touch (no entry of
\* the frame at its price on its side) is in the book priced for the current
\* frame, with the same quantity.
C5_BookPersists ==
    Priced =>
        \A t \in SideTypes :
            \A i \in DOMAIN Side(prev_book, t) :
                LET level == Side(prev_book, t)[i]
                IN (/\ Resting(level)
                    /\ \A k \in DOMAIN Applied(t) : Applied(t)[k].price # level.price)
                   => \E j \in DOMAIN Side(order_book, t) :
                          Side(order_book, t)[j] = level

-----------------------------------------------------------------------------
\* Vocabulary of the pricing properties.
Depths == {Frac(k, 2) : k \in 0..MaxDepth}
PositiveDepths == Depths \ {DecimalZero}

\* weighted_average_price(book, side, depth) as the program computes it.
weighted_average_price(book, order_type, depth) ==
    IF order_type = "bid"
    THEN calculate_weighted_average_price_bids(book.bids, depth)
    ELSE calculate_weighted_average_price_asks(book.asks, depth)

\* What each level visited by the sweep of a side contributed.
Taken(book, order_type, depth) ==
    IF order_type = "bid"
    THEN SweepBids(book.bids, depth, 1, DecimalZero, DecimalZero, <<>>).taken
    ELSE SweepAsks(book.asks, depth, 1, DecimalZero, DecimalZero, <<>>).taken

\* The total resting quantity of a side, and its total price * quantity.
RECURSIVE TotalQuantity(_)
TotalQuantity(levels) ==
    IF levels = <<>> THEN DecimalZero
    ELSE DAdd(levels[1].quantity, TotalQuantity(Tail(levels)))

RECURSIVE TotalValue(_)
TotalValue(levels) ==
    IF levels = <<>> THEN DecimalZero
    ELSE DAdd(DMul(levels[1].price, levels[1].quantity), TotalValue(Tail(levels)))

NonNegative(levels) ==
    \A i \in DOMAIN levels : DGe(levels[i].quantity, DecimalZero)

\* A side as the data model describes it: resting levels at distinct prices.
WellFormedSide(levels) ==
    /\ \A i \in DOMAIN levels : Resting(levels[i])
    /\ \A i, j \in DOMAIN levels : levels[i].price = levels[j].price => i = j

\* a is a strictly better price than b on the side.
Better(order_type, a, b) ==
    IF order_type = "bid" THEN DLt(b, a) ELSE DLt(a, b)

\* The best level of a non-empty set of levels at distinct prices.
Best(order_type, S) ==
    CHOOSE l \in S : \A m \in S \ {l} : Better(order_type, l.price, m.price)

\* The sum of price * consumed over the levels of S taken best to worst: a
\* level is consumed whole while the running total stays below depth, the
\* level that reaches or crosses depth gives depth minus the running total.
RECURSIVE BestFirstValue(_, _, _, _)
BestFirstValue(order_type, S, depth, consumed) ==
    IF S = {} THEN DecimalZero
    ELSE LET l == Best(order_type, S)
         IN IF DLt(DAdd(consumed, l.quantity), depth)
            THEN DAdd(DMul(l.price, l.quantity),
                      BestFirstValue(order_type, S \ {l}, depth,
                                     DAdd(consumed, l.quantity)))
            ELSE DMul(l.price, DSub(depth, consumed))

LevelSet(levels) == {levels[i] : i \in DOMAIN levels}

C7_BestPriceOutward ==
    \A t \in SideTypes, d \in PositiveDepths :
        LET levels == Side(order_book, t)
            taken == Taken(order_book, t, d)
        IN WellFormedSide(levels)
           => \A i \in DOMAIN taken :
                  DLt(DecimalZero, taken[i])
                  => \A j \in DOMAIN levels :
                         Better(t, levels[j].price, levels[i].price)
                         => /\ j < i
                            /\ taken[j] = levels[j].quantity

\* C8: depth exactness: a well-formed side whose total resting quantity is
\* at least depth, depth > 0, is priced at the sum of price * consumed over
\* its levels taken best to worst, divided by depth.
C8_DepthExactness ==
    \A t \in SideTypes, d \in PositiveDepths :
        LET levels == Side(order_book, t)
        IN (WellFormedSide(levels) /\ DGe(TotalQuantity(levels), d))
           => weighted_average_price(order_book, t, d) =
                  Some(DDiv(BestFirstValue(t, LevelSet(levels), d, DecimalZero), d))

\* C9: best-price ordering: the first level pricing iterates on a non-empty
\* bid side has the maximum price of the side, on a non-empty ask side the
\* minimum price.
C9_BestPriceFirst ==
    \A t \in SideTypes :
        \A j \in DOMAIN Side(order_book, t) :
            ~Better(t, Side(order_book, t)[j].price, Side(order_book, t)[1].price)

\* A priced frame whose three bids came in rising price order: each push
\* moved the new level to the front.
C9_Witness ==
    /\ Priced
    /\ Len(msg_b) = 3
    /\ DLt(msg_b[1].price, msg_b[2].price)
    /\ DLt(msg_b[2].price, msg_b[3].price)
    /\ order_book.bids[1] = msg_b[3]

\* C10: invalid updates are rejected without aborting or corrupting: no
\* entry of a frame makes the process panic, and the book never holds a level
\* with a price <= 0 or a negative quantity.
C10_InvalidRejected ==
    [][/\ pc \in {"bids", "asks"} => pc' # "panicked"
       /\ \A t \in SideTypes :
              \A i \in DOMAIN Side(order_book', t) :
                  /\ DLt(DecimalZero, Side(order_book', t)[i].price)
                  /\ DGe(Side(order_book', t)[i].quantity, DecimalZero)
      ]_vars

-----------------------------------------------------------------------------
\* C11: zero depth: at depth 0 either side of any book, empty or not, is
\* priced None, never at a number.
C11_ZeroDepthAbsent ==
    \A t \in SideTypes : weighted_average_price(order_book, t, DecimalZero) = None

\* The negation of a Decimal.
DNeg(x) == [num |-> -x.num, den |-> x.den]

\* C12: the spread printed for a frame is the ask-side price minus the
\* bid-side price of the frame's book at the one depth, zero standing in for
\* a side priced None: an empty book gives 0, a bid side priced None gives
\* the ask price, an ask side priced None gives minus the bid price.
C12_Spread ==
    Priced =>
        LET bid == weighted_average_price(order_book, "bid", Depth)
            ask == weighted_average_price(order_book, "ask", Depth)
        IN /\ printed.bid = (IF bid.some THEN bid.val ELSE DecimalZero)
           /\ printed.ask = (IF ask.some THEN ask.val ELSE DecimalZero)
           /\ DAdd(printed.spread, printed.bid) = printed.ask
           /\ (order_book = NewOrderBook) => printed.spread = DecimalZero
           /\ (~bid.some /\ ask.some) => printed.spread = ask.val
           /\ (bid.some /\ ~ask.some) => printed.spread = DNeg(bid.val)

\* A frame was priced whose bid side is priced None and whose ask side is
\* not: the spread printed is the ask price.
C12_Witness ==
    /\ Priced
    /\ order_book.bids = <<>>
    /\ Len(order_book.asks) = 2
    /\ \A i \in DOMAIN order_book.asks : Resting(order_book.asks[i])
    /\ printed.spread = printed.ask
    /\ DLt(DecimalZero, printed.spread)

\* A side built from the empty book by positive-quantity updates at distinct
\* prices, holding at least one level, whose best level rests at least depth.
Shallow(order_type, depth) ==
    LET levels == Side(order_book, order_type)
    IN /\ levels # <<>>
       /\ WellFormedSide(levels)
       /\ DGe(Best(order_type, LevelSet(levels)).quantity, depth)

\* C13: shallow queries read the best price: on such a side, for
\* 0 < depth <= the quantity of the best level, the side is priced at its
\* best price (highest bid, lowest ask); when a frame is priced with both
\* sides so, the spread printed is the best ask minus the best bid.
C13_ShallowReadsBest ==
    /\ \A t \in SideTypes :
           LET levels == Side(order_book, t)
           IN (levels # <<>> /\ WellFormedSide(levels))
              => LET best == Best(t, LevelSet(levels))
                 IN \A d \in PositiveDepths :
                        DGe(best.quantity, d)
                        => weighted_average_price(order_book, t, d) =
                               Some(best.price)
    /\ (Priced /\ Shallow("bid", Depth) /\ Shallow("ask", Depth))
       => printed.spread = DSub(Best("ask", LevelSet(order_book.asks)).price,
                                Best("bid", LevelSet(order_book.bids)).price)

\* A frame was priced whose two bids came worse price first and whose one
\* ask rests: the spread printed is the best ask minus the best bid.
C13_Witness ==
    /\ Priced
    /\ Len(msg_b) = 2
    /\ DLt(msg_b[1].price, msg_b[2].price)
    /\ Len(msg_a) = 1
    /\ Shallow("bid", Depth)
    /\ Shallow("ask", Depth)
    /\ printed.bid = msg_b[2].price
    /\ printed.spread = DSub(msg_a[1].price, msg_b[2].price)

\* The heap vector that pushing the entries of a batch, in order, onto an
\* empty side gives: the for loops of handle_message over message.b and
\* message.a.
RECURSIVE BuildSide(_, _)
BuildSide(batch, order_type) ==
    IF batch = <<>> THEN <<>>
    ELSE HeapPush(BuildSide(SubSeq(batch, 1, Len(batch) - 1), order_type),
                  batch[Len(batch)], order_type)

\* The orders in which a batch of n entries can be applied.
BatchOrders(n) ==
    {f \in [1..n -> 1..n] : \A i, j \in 1..n : f[i] = f[j] => i = j}

Permuted(batch, f) == [i \in DOMAIN batch |-> batch[f[i]]]

\* The book with one side replaced.
WithSide(book, order_type, levels) ==
    IF order_type = "bid" THEN [book EXCEPT !.bids = levels]
    ELSE [book EXCEPT !.asks = levels]

\* C14: batch order independence: when the entries of a frame's batch for a
\* side are resting levels at pairwise distinct prices, every order of
\* applying them gives the side the same set of levels and the same price at
\* every depth.
C14_BatchOrderIndependent ==
    \A t \in SideTypes :
        WellFormedSide(Applied(t))
        => \A f \in BatchOrders(Len(Applied(t))) :
               LET other == BuildSide(Permuted(Applied(t), f), t)
               IN /\ LevelSet(other) = LevelSet(Side(order_book, t))
                  /\ \A d \in PositiveDepths :
                         weighted_average_price(WithSide(order_book, t, other), t, d)
                             = weighted_average_price(order_book, t, d)

\* The book of the frame is the one its batches build, each side from its
\* own batch in the order of the frame.
BookIsBuilt ==
    \A t \in SideTypes : Side(order_book, t) = BuildSide(Applied(t), t)

\* C15: no price is computed from a partly applied frame: the step that
\* prints reads both prices and the spread from one book, the book that holds
\* every entry applied for the frame, and changes neither the book nor the
\* batches; and once a frame has printed, no entry is applied to it.
C15_PricedAfterWholeFrame ==
    [][/\ printed' # printed
          => /\ order_book' = order_book
             /\ msg_b' = msg_b
             /\ msg_a' = msg_a
             /\ \A t \in SideTypes :
                    /\ Len(Side(order_book, t)) = Len(Applied(t))
                    /\ \A k \in DOMAIN Applied(t) :
                           Applied(t)[k] \in LevelSet(Side(order_book, t))
             /\ printed'.bid =
                    UnwrapOr(weighted_average_price(order_book, "bid", Depth), DecimalZero)
             /\ printed'.ask =
                    UnwrapOr(weighted_average_price(order_book, "ask", Depth), DecimalZero)
             /\ printed'.spread = DSub(printed'.ask, printed'.bid)
       /\ \A t \in SideTypes : AppliesUpdate(t) => ~printed.any /\ ~printed'.any
      ]_vars

\* A frame with entries on both sides was priced.
C15_Witness ==
    /\ Priced
    /\ Len(msg_b) = 2
    /\ Len(msg_a) = 1
    /\ Len(order_book.bids) = 2
    /\ Len(order_book.asks) = 1
    /\ ~DIsZero(printed.bid)
    /\ ~DIsZero(printed.ask)

\* C16: the two sides are independent: an update applied to one side leaves
\* the other side's collection as it was, and with it that side's price at
\* every depth.
C16_SidesIndependent ==
    [][/\ AppliesUpdate("bid")
          => /\ order_book'.asks = order_book.asks
             /\ \A d \in Depths :
                    weighted_average_price(order_book', "ask", d)
                        = weighted_average_price(order_book, "ask", d)
       /\ AppliesUpdate("ask")
          => /\ order_book'.bids = order_book.bids
             /\ \A d \in Depths :
                    weighted_average_price(order_book', "bid", d)
                        = weighted_average_price(order_book, "bid", d)
      ]_vars

\* An ask was applied to a book that holds two bids, which are still the
\* two bids of the frame.
C16_Witness ==
    /\ pc = "asks"
    /\ Len(msg_a) = 1
    /\ Len(msg_b) = 2
    /\ order_book.bids = BuildSide(msg_b, "bid")
    /\ order_book.asks = BuildSide(msg_a, "ask")

\* C17: the bid routine and the ask routine are the same function of the
\* sequence they iterate: on the vector of either side of every priced book,
\* and at every depth, both return the same result (both None, or the same
\* number).
C17_RoutinesAgree ==
    Priced =>
        \A t \in SideTypes, d \in Depths :
            calculate_weighted_average_price_bids(Side(order_book, t), d)
                = calculate_weighted_average_price_asks(Side(order_book, t), d)

\* A priced frame with three resting bids that the ask routine, run on the
\* bid vector, prices at a number from more than one level.
C17_Witness ==
    /\ Priced
    /\ Len(order_book.bids) = 3
    /\ WellFormedSide(order_book.bids)
    /\ DLt(order_book.bids[1].quantity, Depth)
    /\ calculate_weighted_average_price_asks(order_book.bids, Depth).some
    /\ calculate_weighted_average_price_asks(order_book.bids, Depth).val = printed.bid

\* The running total after the first k iterations of a sweep.
RECURSIVE RunningTotal(_, _)
RunningTotal(taken, k) ==
    IF k = 0 THEN DecimalZero ELSE DAdd(RunningTotal(taken, k - 1), taken[k])

\* C18: on a side of non-negative quantities of a priced book and at a
\* depth > 0, the quantity consumed never exceeds depth at any step of the
\* sweep, and a price that is returned lies between the lowest and the
\* highest price of the side's levels, both included.
C18_ConsumedAndPriceBounded ==
    Priced =>
        \A t \in SideTypes :
            LET levels == Side(order_book, t)
            IN NonNegative(levels)
               => \A d \in PositiveDepths :
                      LET taken == Taken(order_book, t, d)
                          price == weighted_average_price(order_book, t, d)
                      IN /\ \A k \in DOMAIN taken : DGe(d, RunningTotal(taken, k))
                         /\ price.some
                            => /\ \E i \in DOMAIN levels :
                                      DGe(price.val, levels[i].price)
                               /\ \E i \in DOMAIN levels :
                                      DGe(levels[i].price, price.val)

\* A priced frame whose bid price lies strictly between the lowest and the
\* highest bid, the sweep having stopped part way into a level.
C18_Witness ==
    /\ Priced
    /\ Len(order_book.bids) >= 2
    /\ NonNegative(order_book.bids)
    /\ Len(Taken(order_book, "bid", Depth)) = 2
    /\ DLt(Taken(order_book, "bid", Depth)[2], order_book.bids[2].quantity)
    /\ \E i \in DOMAIN order_book.bids : DLt(order_book.bids[i].price, printed.bid)
    /\ \E i \in DOMAIN order_book.bids : DLt(printed.bid, order_book.bids[i].price)

=============================================================================
